---- MODULE Spec2Model ----
(***************************************************************************)
(* State-machine model of the durable asynchronous task orchestrator of    *)
(* src/omndx/orchestrator.py (class Orchestrator and its helpers).         *)
(*                                                                         *)
(* The program is an asyncio program: one thread, coroutines that run      *)
(* without interruption from one `await` that suspends to the next.  Each  *)
(* action below is one such uninterrupted stretch of one coroutine.        *)
(* Durations (sleeps, handler run times, the 0.1 s dequeue poll) are not   *)
(* measured: a suspended coroutine resumes at some later step.  The clock  *)
(* `now` stands for time.time() / time.monotonic() in discrete ticks.      *)
(***************************************************************************)
EXTENDS Integers, Sequences, FiniteSets, TLC

(* ------------------------------ bounds -------------------------------- *)

\* add_task calls accepted in the general specification
MaxTasks == 2
\* ... in the dispatch-order specification
MaxQueueTasks == 3
\* ... in the rate-limit specification
MaxBucketTasks == 4
\* ... in the liveness specification
MaxLiveTasks == 2
\* ... in the restart specification
MaxRestartTasks == 1
\* ... in the replay specification
MaxReplayTasks == 2
\* ... in the retry specification
MaxRetryTasks == 2
\* largest retry_attempts of the retry specification
MaxRetry == 3
\* ... in the configuration specifications
MaxConfigTasks == 2
\* ... in the torn-write specification
MaxTornTasks == 2
\* ... in the deadline specification
MaxDeadlineTasks == 2
\* ... in the expiry specification
MaxExpiryTasks == 2
\* ... in the write-failure specification
MaxDiskTasks == 2
\* ... in the circuit-breaker specification
MaxCircuitTasks == 2
\* largest circuit_breaker_threshold of the circuit-breaker specification
MaxThreshold == 2
\* circuit_breaker_timeout of the circuit-breaker specification, in ticks
CircuitCooldown == 1
\* last clock reading of the circuit-breaker specification
CircuitHorizon == 3
\* ... in the leader specification
MaxLeaderTasks == 2
\* tasks submitted in the cancellation specification
MaxCancelTasks == 2
\* worker coroutines existing at one time (live, or ended but still listed)
MaxWorkers == 3
\* priorities are 0..MaxPriority
MaxPriority == 1
\* last clock reading of the rate-limit specification (the clock starts at 1)
BucketHorizon == 4
\* last clock reading of the deadline specification
DeadlineHorizon == 3
\* start() calls and crashes in one run
MaxStarts == 2
\* start() calls in one run of the replay specification
MaxRestarts == 3
MaxCrashes == 1
\* update_config calls in one run
MaxUpdates == 1
\* tokens are counted in 1/TokenUnit of a token (refill rates are fractions)
TokenUnit == 2
\* largest bucket capacity, and largest refill rate in 1/TokenUnit per tick
MaxCapacity == 2
MaxRate == 2

Min(a, b) == IF a < b THEN a ELSE b
Max(a, b) == IF a > b THEN a ELSE b

TaskIds == 1..Max(Max(MaxTasks, MaxQueueTasks), Max(MaxBucketTasks, Max(MaxLiveTasks, Max(MaxRestartTasks, Max(MaxCancelTasks, Max(MaxLeaderTasks, Max(MaxReplayTasks, Max(MaxRetryTasks, Max(MaxConfigTasks, Max(MaxTornTasks, Max(MaxDeadlineTasks, Max(MaxCircuitTasks, Max(MaxExpiryTasks, MaxDiskTasks)))))))))))))
WorkerIds == 1..MaxWorkers
Priorities == 0..MaxPriority

None == -1

(* ------------------------------ state --------------------------------- *)

VARIABLES
  now,        \* the clock (time.time(), time.monotonic())
  config,     \* OrchestratorConfig
  env,        \* the environment: what clients submit, how handlers behave
  wal,        \* the WAL file: the records written so far
  walq,       \* WriteAheadLog.append calls in progress, in lock order
  tasks,      \* Orchestrator._tasks
  nextId,     \* the next fresh task id (uuid4 never repeats)
  queue,      \* Orchestrator._queue: the heap array of the PriorityQueue
  unfinished, \* Orchestrator._queue._unfinished_tasks (what join() waits for)
  workers,    \* Orchestrator._workers
  wk,         \* every worker coroutine: where it is suspended, what it holds
  running,    \* Orchestrator._running: task id -> the worker whose runner it is
  scaler,     \* Orchestrator._scaler
  shutdown,   \* Orchestrator._shutdown
  stopping,   \* a stop() call suspended in its gather of the workers
  leader,     \* the leader lock file: is it held
  circuit,    \* Orchestrator._circuit
  sem,        \* Orchestrator._semaphores: free permits per service
  bucket,     \* Orchestrator._rate_limits
  accepts,    \* history: clock readings of the accepted rate-limited add_task calls
  snap,       \* history: task statuses at the last crash
  starts,     \* history: start() calls so far
  crashes,    \* history: crashes so far
  ret,        \* history: how the last client call ended: "ok" (add_task returned
              \* the id, cancel_task returned True, start() or stop() returned),
              \* "refused" (cancel_task returned False), "error" (RuntimeError)
  peer,       \* a second orchestrator constructed on the same leader lock path
  upd         \* history: the update_config calls so far (n), the overrides of
              \* the last one, the map it returned, whether it raised

vars == <<now, config, env, wal, walq, tasks, nextId, queue, unfinished, workers,
          wk, running, scaler, shutdown, stopping, leader, circuit, sem, bucket,
          accepts, snap, starts, crashes, ret, peer, upd>>

Services == {"svc", "ghost"}
\* the services handed to the constructor; "ghost" is a name no service has
Registered == {"svc"}

Terminal == {"succeeded", "failed", "cancelled"}

(* ------------------------- the priority queue ------------------------- *)

\* _QueuedTask is ordered by priority alone: task_id has compare=False
LessReversed(a, b) == a.priority > b.priority
Less(a, b) == a.priority < b.priority

\* heapq._siftdown: move `item` from pos up towards start while it is smaller
RECURSIVE SiftDown(_, _, _, _)
SiftDown(h, item, start, pos) ==
  IF pos > start /\ Less(item, h[pos \div 2])
  THEN SiftDown([h EXCEPT ![pos] = h[pos \div 2]], item, start, pos \div 2)
  ELSE [h EXCEPT ![pos] = item]

\* heapq._siftup: bubble the smaller child up until a leaf, then sift down
RECURSIVE SiftUp(_, _, _, _)
SiftUp(h, item, start, pos) ==
  LET c == 2 * pos
      r == c + 1
  IN IF c <= Len(h)
     THEN LET ch == IF r <= Len(h) /\ ~Less(h[c], h[r]) THEN r ELSE c
          IN SiftUp([h EXCEPT ![pos] = h[ch]], item, start, ch)
     ELSE SiftDown([h EXCEPT ![pos] = item], item, start, pos)

\* PriorityQueue._put: heapq.heappush
HeapPush(h, x) == SiftDown(Append(h, x), x, 1, Len(h) + 1)

\* PriorityQueue._get: heapq.heappop, as [item, heap]
HeapPop(h) ==
  LET last == h[Len(h)]
      rest == SubSeq(h, 1, Len(h) - 1)
  IN IF rest = <<>>
     THEN [item |-> last, heap |-> rest]
     ELSE [item |-> h[1], heap |-> SiftUp([rest EXCEPT ![1] = last], last, 1, 1)]

QueuedTask(p, id) == [priority |-> p, task_id |-> id]

(* --------------------------- the token bucket ------------------------- *)

\* _TokenBucket(capacity, rate): full at construction
NewBucket(limit, t) ==
  [on |-> limit.on, capacity |-> limit.capacity, refill_rate |-> limit.rate,
   tokens |-> limit.capacity * TokenUnit, updated |-> t]

\* _TokenBucket.consume(1) at clock reading t, as [allowed, bucket]
ConsumeNoCap(b, t) ==
  LET filled == b.tokens + (t - b.updated) * b.refill_rate
  IN IF filled >= TokenUnit
     THEN [allowed |-> TRUE, bucket |-> [b EXCEPT !.tokens = filled - TokenUnit, !.updated = t]]
     ELSE [allowed |-> FALSE, bucket |-> [b EXCEPT !.tokens = filled, !.updated = t]]
Consume(b, t) ==
  LET filled == Min(b.capacity * TokenUnit, b.tokens + (t - b.updated) * b.refill_rate)
  IN IF filled >= TokenUnit
     THEN [allowed |-> TRUE, bucket |-> [b EXCEPT !.tokens = filled - TokenUnit, !.updated = t]]
     ELSE [allowed |-> FALSE, bucket |-> [b EXCEPT !.tokens = filled, !.updated = t]]

(* ------------------------- the circuit breaker ------------------------ *)

NewCircuit == [failures |-> 0, opened_at |-> None]

\* _CircuitState.allow at clock reading t, as [allowed, state]
CircuitAllowAlways(c, timeout, t) == [allowed |-> TRUE, state |-> c]
CircuitAllow(c, timeout, t) ==
  IF c.opened_at = None THEN [allowed |-> TRUE, state |-> c]
  ELSE IF t - c.opened_at > timeout THEN [allowed |-> TRUE, state |-> NewCircuit]
  ELSE [allowed |-> FALSE, state |-> c]

\* _CircuitState.record_success
RecordSuccess(c) == NewCircuit

\* _CircuitState.record_failure at clock reading t
RecordFailureLate(c, threshold, t) ==
  [failures |-> c.failures + 1,
   opened_at |-> IF c.failures + 1 > threshold /\ c.opened_at = None THEN t ELSE c.opened_at]
RecordFailure(c, threshold, t) ==
  [failures |-> c.failures + 1,
   opened_at |-> IF c.failures + 1 >= threshold /\ c.opened_at = None THEN t ELSE c.opened_at]

(* ------------------------------ records ------------------------------- *)

NoTask ==
  [status |-> "absent", service |-> "svc", priority |-> 0, deadline |-> None,
   result |-> None, retries |-> 0, start_time |-> None, end_time |-> None]

\* TaskSpec(service, payload, priority, deadline): the defaults of the dataclass
TaskSpec(service, priority, deadline) ==
  [status |-> "pending", service |-> service, priority |-> priority, deadline |-> deadline,
   result |-> None, retries |-> 0, start_time |-> None, end_time |-> None]

\* what the handler of a task returns: a function of its payload, here of the task
Return(id) == id

AddRecord(id, t) ==
  [event |-> "add", task_id |-> id, status |-> t.status, service |-> t.service,
   priority |-> t.priority, deadline |-> t.deadline]
StatusRecord(id, status) ==
  [event |-> "status", task_id |-> id, status |-> status, service |-> "svc",
   priority |-> 0, deadline |-> None]
\* a line that json.loads rejects: the beginning of a record whose write the
\* crash cut short ("torn", without its newline), and such a beginning with
\* the next record written onto it ("bad")
Malformed(kind) ==
  [event |-> kind, task_id |-> 0, status |-> "-", service |-> "svc",
   priority |-> 0, deadline |-> None]

\* {"event": "config_override", "changes": ...}: a record of no task
ConfigRecord ==
  [event |-> "config_override", task_id |-> 0, status |-> "-", service |-> "svc",
   priority |-> 0, deadline |-> None]

\* a worker coroutine that does not exist
NoWorker == [pc |-> "none", tid |-> 0, rpc |-> "-", attempt |-> 0, exc |-> FALSE]
\* a worker coroutine suspended in queue.get()
IdleWorker == [NoWorker EXCEPT !.pc = "get"]


(* ------------------------------ helpers ------------------------------- *)

Range(f) == {f[i] : i \in DOMAIN f}

FreeSlots == {w \in WorkerIds : wk[w].pc = "none"}

RECURSIVE LowestN(_, _)
\* the n lowest members of a set of numbers, as a sequence
LowestN(S, n) ==
  IF n = 0 \/ S = {} THEN <<>>
  ELSE LET m == CHOOSE x \in S : \A y \in S : x <= y
       IN <<m>> \o LowestN(S \ {m}, n - 1)

\* a worker coroutine that has returned or raised: the Task object stays in
\* _workers until stop() or the autoscaler removes it
Exited(listed) == IF listed THEN [NoWorker EXCEPT !.pc = "dead"] ELSE NoWorker

\* the worker loop after an entry is handled: `while not self._shutdown.is_set()`
LoopTop(w, sd) == IF sd THEN Exited(w \in Range(workers)) ELSE IdleWorker

HoldsPermit(r) == r.pc = "run" /\ r.rpc \in {"attempt", "backoff"}

\* asyncio.Task.cancel() of a worker: what becomes of the coroutine.  Suspended
\* in queue.get(), in the circuit-open sleep or in the WAL append of its finally
\* block, it ends there (CancelledError is no Exception and nothing catches it);
\* awaiting its runner, the cancellation is passed on to the runner and the
\* worker goes through its finally block when it resumes.
CancelledWorker(r, listed) ==
  IF r.pc \in {"get", "sleep", "wal"} THEN Exited(listed)
  ELSE IF r.pc = "run"
       THEN [r EXCEPT !.exc = TRUE,
                      !.rpc = IF r.rpc \in {"sem", "attempt", "backoff"} THEN "cancelled" ELSE r.rpc]
       ELSE r

\* asyncio.Task.cancel() of a runner (cancel_task): a finished runner is left alone
CancelledRunner(r) ==
  IF r.pc = "run" /\ r.rpc \in {"sem", "attempt", "backoff"} THEN [r EXCEPT !.rpc = "cancelled"] ELSE r

\* permits given back (`async with sem` left) when the runners of the workers W are cancelled
Released(W, s) ==
  Cardinality({w \in W : HoldsPermit(wk[w]) /\ tasks[wk[w].tid].service = s})

SemAfterCancel(W) ==
  [s \in Services |-> IF sem[s] = None THEN None ELSE sem[s] + Released(W, s)]

\* WriteAheadLog.append calls of cancelled workers: the one that holds the lock
\* has its line in the writer thread, which is not interrupted; the ones waiting
\* for the lock never write
RECURSIVE DropWaiting(_, _, _)
DropWaiting(q, W, i) ==
  IF i > Len(q) THEN <<>>
  ELSE IF q[i].owner \in W
       THEN (IF i = 1 THEN <<[q[i] EXCEPT !.owner = 0]>> ELSE <<>>) \o DropWaiting(q, W, i + 1)
       ELSE <<q[i]>> \o DropWaiting(q, W, i + 1)

WalqAfterCancel(W) == DropWaiting(walq, {w \in W : wk[w].pc = "wal"}, 1)

(* ------------------------------ recovery ------------------------------ *)

\* a replay in which the add record of a task already in the store fails it
ReplayKnownFails(ts, rec, t) ==
  IF rec.event = "add"
  THEN [ts EXCEPT ![rec.task_id] =
          IF @.status = "absent"
          THEN [TaskSpec(rec.service, rec.priority, rec.deadline) EXCEPT !.status = rec.status]
          ELSE [@ EXCEPT !.status = "failed"]]
  ELSE IF rec.event = "status" /\ ts[rec.task_id].status # "absent"
       THEN [ts EXCEPT ![rec.task_id] =
               [@ EXCEPT !.status = rec.status,
                         !.end_time = IF rec.status \in Terminal /\ @ = None THEN t ELSE @]]
       ELSE ts

\* Orchestrator._recover, the replay of one record
Replay(ts, rec, t) ==
  IF rec.event = "add"
  THEN [ts EXCEPT ![rec.task_id] =
          [TaskSpec(rec.service, rec.priority, rec.deadline) EXCEPT !.status = rec.status]]
  ELSE IF rec.event = "status" /\ ts[rec.task_id].status # "absent"
       THEN [ts EXCEPT ![rec.task_id] =
               [@ EXCEPT !.status = rec.status,
                         !.end_time = IF rec.status \in Terminal /\ @ = None THEN t ELSE @]]
       ELSE ts

RECURSIVE ReplayAll(_, _, _, _)
ReplayAll(ts, log, i, t) ==
  IF i > Len(log) THEN ts ELSE ReplayAll(Replay(ts, log[i], t), log, i + 1, t)

\* Orchestrator._recover, the second loop: every non-terminal task is pending again
Requeued(ts) == {id \in TaskIds : ts[id].status \notin Terminal \cup {"absent"}}

ResetPending(ts) ==
  [id \in TaskIds |-> IF id \in Requeued(ts) THEN [ts[id] EXCEPT !.status = "pending"] ELSE ts[id]]

RECURSIVE PutAll(_, _, _)
\* ... and is put on the queue, in the order of the task store
PutAll(h, ts, id) ==
  IF id \notin TaskIds THEN h
  ELSE PutAll(IF id \in Requeued(ts) THEN HeapPush(h, QueuedTask(ts[id].priority, id)) ELSE h,
              ts, id + 1)

(* ------------------------------ clients ------------------------------- *)

\* Orchestrator.add_task, accepted: up to its suspension in WriteAheadLog.append
AddTask(s, p, d) ==
  LET c == Consume(bucket[s], now)
      t == TaskSpec(s, p, d)
  IN /\ nextId <= env.budget
     /\ bucket[s].on => c.allowed
     /\ bucket' = IF bucket[s].on THEN [bucket EXCEPT ![s] = c.bucket] ELSE bucket
     /\ accepts' = IF bucket[s].on THEN Append(accepts, now) ELSE accepts
     /\ tasks' = [tasks EXCEPT ![nextId] = t]
     /\ queue' = HeapPush(queue, QueuedTask(p, nextId))
     /\ unfinished' = unfinished + 1
     /\ walq' = Append(walq, [rec |-> AddRecord(nextId, t), owner |-> 0])
     /\ nextId' = nextId + 1
     /\ ret' = "ok"
     /\ UNCHANGED <<now, config, env, wal, workers, wk, running, scaler, shutdown,
                    stopping, leader, circuit, sem, snap, starts, crashes, peer, upd>>

\* Orchestrator.add_task, rejected: RuntimeError("rate limit exceeded")
AddTaskRejectedStored(s) ==
  LET c == Consume(bucket[s], now)
  IN /\ bucket[s].on
     /\ ~c.allowed
     /\ nextId <= env.budget
     /\ bucket' = [bucket EXCEPT ![s] = c.bucket]
     /\ tasks' = [tasks EXCEPT ![nextId] = TaskSpec(s, 0, None)]
     /\ nextId' = nextId + 1
     /\ ret' = "error"
     /\ UNCHANGED <<now, config, env, wal, walq, queue, unfinished, workers,
                    wk, running, scaler, shutdown, stopping, leader, circuit, sem,
                    accepts, snap, starts, crashes, peer, upd>>
AddTaskRejected(s) ==
  LET c == Consume(bucket[s], now)
  IN /\ bucket[s].on
     /\ ~c.allowed
     /\ bucket' = [bucket EXCEPT ![s] = c.bucket]
     /\ ret' = "error"
     /\ UNCHANGED <<now, config, env, wal, walq, tasks, nextId, queue, unfinished, workers,
                    wk, running, scaler, shutdown, stopping, leader, circuit, sem,
                    accepts, snap, starts, crashes, peer, upd>>

\* Orchestrator.cancel_task: the statuses it acts on; for every other task, and
\* for an id it does not know, it returns False
CancellableAlways(t) == t.status # "absent"
Cancellable(t) == t.status \in {"pending", "running"}

\* Orchestrator.cancel_task on a pending or running task: up to its suspension
\* in WriteAheadLog.append
CancelTask(id) ==
  LET w == running[id]
      hit == IF tasks[id].status = "running" /\ w # 0 THEN {w} ELSE {}
  IN /\ Cancellable(tasks[id])
     /\ wk' = [x \in WorkerIds |-> IF x \in hit THEN CancelledRunner(wk[x]) ELSE wk[x]]
     /\ sem' = SemAfterCancel(hit)
     /\ tasks' = [tasks EXCEPT ![id].status = "cancelled"]
     /\ walq' = Append(walq, [rec |-> StatusRecord(id, "cancelled"), owner |-> 0])
     /\ ret' = "ok"
     /\ UNCHANGED <<now, config, env, wal, nextId, queue, unfinished, workers, running,
                    scaler, shutdown, stopping, leader, circuit, bucket, accepts, snap,
                    starts, crashes, peer, upd>>

\* Orchestrator.cancel_task on an unknown id or a terminal task: `return False`
CancelTaskRefused(id) ==
  /\ ~Cancellable(tasks[id])
  /\ ret' = "refused"
  /\ UNCHANGED <<now, config, env, wal, walq, tasks, nextId, queue, unfinished, workers, wk,
                 running, scaler, shutdown, stopping, leader, circuit, sem, bucket,
                 accepts, snap, starts, crashes, peer, upd>>

\* Orchestrator.join: queue.join() returns when every entry put has been
\* answered by a task_done()
JoinReturns == unfinished = 0

\* hasattr(self.config, key): the fields of the dataclass, and what its class
\* defines (`from_file`); OrchestratorConfig has slots, so that setattr on a
\* name of the class raises AttributeError
ClassAttributes == {"from_file"}
HasAttr(cfg, k) == k \in DOMAIN cfg \cup ClassAttributes

NoChanges == [k \in {} |-> 0]
Changed(ch, k, e) == [x \in DOMAIN ch \cup {k} |-> IF x = k THEN e ELSE ch[x]]

\* Orchestrator.update_config, the loop over overrides.items() from item i on,
\* as [config, changes, raised]
RECURSIVE ApplyOverrides(_, _, _, _)
ApplyOverrides(cfg, ov, i, ch) ==
  IF i > Len(ov) THEN [config |-> cfg, changes |-> ch, raised |-> FALSE]
  ELSE LET k == ov[i][1]
           v == ov[i][2]
       IN IF ~HasAttr(cfg, k) THEN ApplyOverrides(cfg, ov, i + 1, ch)
          ELSE IF k \in ClassAttributes THEN [config |-> cfg, changes |-> ch, raised |-> TRUE]
          ELSE ApplyOverrides([cfg EXCEPT ![k] = v], ov, i + 1,
                              Changed(ch, k, [old |-> cfg[k], new |-> v]))

\* Orchestrator.update_config(overrides), overrides as the sequence of its
\* items; the WAL append of a non-empty change map is a task of its own
UpdateConfig(ov) ==
  LET r == ApplyOverrides(config, ov, 1, NoChanges)
      logged == ~r.raised /\ DOMAIN r.changes # {}
  IN /\ upd.n < MaxUpdates
     /\ config' = r.config
     /\ walq' = IF logged THEN Append(walq, [rec |-> ConfigRecord, owner |-> 0]) ELSE walq
     /\ upd' = [n |-> upd.n + 1, overrides |-> ov,
                changes |-> IF r.raised THEN NoChanges ELSE r.changes,
                raised |-> r.raised]
     /\ ret' = IF r.raised THEN "error" ELSE "ok"
     /\ UNCHANGED <<now, env, wal, tasks, nextId, queue, unfinished, workers, wk, running,
                    scaler, shutdown, stopping, leader, circuit, sem, bucket, accepts,
                    snap, starts, crashes, peer>>

\* the clock moves on
Tick ==
  /\ now < env.horizon
  /\ now' = now + 1
  /\ UNCHANGED <<config, env, wal, walq, tasks, nextId, queue, unfinished, workers, wk,
                 running, scaler, shutdown, stopping, leader, circuit, sem, bucket,
                 accepts, snap, starts, crashes, ret, peer, upd>>


(* ------------------------------- workers ------------------------------ *)

\* Orchestrator._execute_with_retry, an attempt that failed (handler error or
\* timeout): [task, circuit state, runner] after the except branch
AttemptFailedOnceMore(t, c, r) ==
  [task |-> [t EXCEPT !.retries = @ + 1],
   circ |-> RecordFailure(c, config.circuit_breaker_threshold, now),
   last |-> r.attempt >= config.retry_attempts]
AttemptFailed(t, c, r) ==
  [task |-> [t EXCEPT !.retries = @ + 1],
   circ |-> RecordFailure(c, config.circuit_breaker_threshold, now),
   last |-> r.attempt + 1 >= config.retry_attempts]

\* Orchestrator._execute_with_retry, the start of attempt number a of worker w's
\* runner: with the deadline reached the timeout is 0 and wait_for raises
\* TimeoutError without waiting; otherwise the runner is suspended in the handler
BeginAttempt(w, id, a, ts, cs, sm, wks) ==
  LET t == ts[id]
      r == [wks[w] EXCEPT !.attempt = a]
      f == AttemptFailed(t, cs[t.service], r)
      timedOut == t.deadline # None /\ Max(0, t.deadline - now) = 0
  IN IF ~timedOut
     THEN [tasks |-> ts, circuit |-> cs, sem |-> sm,
           wk |-> [wks EXCEPT ![w] = [r EXCEPT !.rpc = "attempt"]]]
     ELSE [tasks |-> [ts EXCEPT ![id] = f.task],
           circuit |-> [cs EXCEPT ![t.service] = f.circ],
           sem |-> IF f.last /\ sm[t.service] # None
                   THEN [sm EXCEPT ![t.service] = @ + 1] ELSE sm,
           wk |-> [wks EXCEPT ![w] = [r EXCEPT !.rpc = IF f.last THEN "err" ELSE "backoff"]]]

\* Orchestrator._worker._run: the runner enters `async with sem` if the service has one
BeginRun(w, id, ts, cs, sm, wks) ==
  LET s == ts[id].service
  IN IF sm[s] = None THEN BeginAttempt(w, id, 0, ts, cs, sm, wks)
     ELSE IF sm[s] > 0 THEN BeginAttempt(w, id, 0, ts, cs, [sm EXCEPT ![s] = @ - 1], wks)
     ELSE [tasks |-> ts, circuit |-> cs, sem |-> sm,
           wk |-> [wks EXCEPT ![w] = [@ EXCEPT !.rpc = "sem"]]]

\* Orchestrator._worker: `if not task or task.status == "cancelled"`, the entry is dropped
DiscardedUnknownOnly(t) == t.status = "absent"
Discarded(t) == t.status \in {"absent", "cancelled"}

\* Orchestrator._worker: `if task.deadline and time.time() > task.deadline`
\* (deadlines are clock readings, none of them 0)
DeadlineNeverPassed(t, clock) == FALSE
DeadlinePassed(t, clock) == t.deadline # None /\ clock > t.deadline

\* Orchestrator._worker from `queued = await ... self._queue.get()` to its next suspension
WorkerGet(w) ==
  /\ wk[w].pc = "get"
  /\ queue # <<>>
  /\ LET got == HeapPop(queue)
         id == got.item.task_id
         t == tasks[id]
         allow == CircuitAllow(circuit[t.service], config.circuit_breaker_timeout, now)
         cs == [circuit EXCEPT ![t.service] = allow.state]
     IN /\ queue' = got.heap
        /\ IF Discarded(t)
           THEN /\ unfinished' = unfinished - 1
                /\ wk' = [wk EXCEPT ![w] = LoopTop(w, shutdown)]
                /\ UNCHANGED <<tasks, circuit, sem, running>>
           ELSE IF DeadlinePassed(t, now)
           THEN /\ tasks' = [tasks EXCEPT ![id].status = "failed"]
                /\ unfinished' = unfinished - 1
                /\ wk' = [wk EXCEPT ![w] = LoopTop(w, shutdown)]
                /\ UNCHANGED <<circuit, sem, running>>
           ELSE IF ~allow.allowed
           THEN /\ wk' = [wk EXCEPT ![w] = [@ EXCEPT !.pc = "sleep", !.tid = id]]
                /\ circuit' = cs
                /\ UNCHANGED <<tasks, unfinished, sem, running>>
           ELSE IF t.service \notin Registered
           THEN /\ tasks' = [tasks EXCEPT ![id].status = "failed"]
                /\ unfinished' = unfinished - 1
                /\ wk' = [wk EXCEPT ![w] = LoopTop(w, shutdown)]
                /\ circuit' = cs
                /\ UNCHANGED <<sem, running>>
           ELSE LET go == BeginRun(w, id,
                                   [tasks EXCEPT ![id] = [@ EXCEPT !.status = "running",
                                                                   !.start_time = now]],
                                   cs, sem,
                                   [wk EXCEPT ![w] = [@ EXCEPT !.pc = "run", !.tid = id]])
                IN /\ tasks' = go.tasks
                   /\ circuit' = go.circuit
                   /\ sem' = go.sem
                   /\ wk' = go.wk
                   /\ running' = [running EXCEPT ![id] = w]
                   /\ UNCHANGED unfinished
  /\ UNCHANGED <<now, config, env, wal, walq, nextId, workers, scaler, shutdown, stopping,
                 leader, bucket, accepts, snap, starts, crashes, ret, peer, upd>>

\* Orchestrator._worker, circuit open: after the sleep the entry is put back
WorkerRequeue(w) ==
  /\ wk[w].pc = "sleep"
  /\ queue' = HeapPush(queue, QueuedTask(tasks[wk[w].tid].priority, wk[w].tid))
  /\ wk' = [wk EXCEPT ![w] = LoopTop(w, shutdown)]
  /\ UNCHANGED <<now, config, env, wal, walq, tasks, nextId, unfinished, workers, running,
                 scaler, shutdown, stopping, leader, circuit, sem, bucket, accepts, snap,
                 starts, crashes, ret, peer, upd>>

\* the runner of worker w gets the permit it waited for
RunnerAcquire(w) ==
  LET id == wk[w].tid
      s == tasks[id].service
  IN /\ wk[w].pc = "run" /\ wk[w].rpc = "sem"
     /\ sem[s] > 0
     /\ LET go == BeginAttempt(w, id, 0, tasks, circuit, [sem EXCEPT ![s] = @ - 1], wk)
        IN tasks' = go.tasks /\ circuit' = go.circuit /\ sem' = go.sem /\ wk' = go.wk
     /\ UNCHANGED <<now, config, env, wal, walq, nextId, queue, unfinished, workers, running,
                    scaler, shutdown, stopping, leader, bucket, accepts, snap, starts, crashes, ret, peer, upd>>

\* the handler returns its value: the runner is done and leaves `async with sem`
AttemptReturns(w) ==
  LET s == tasks[wk[w].tid].service
  IN /\ wk[w].pc = "run" /\ wk[w].rpc = "attempt"
     /\ wk' = [wk EXCEPT ![w] = [@ EXCEPT !.rpc = "ok"]]
     /\ sem' = IF sem[s] = None THEN sem ELSE [sem EXCEPT ![s] = @ + 1]
     /\ UNCHANGED <<now, config, env, wal, walq, tasks, nextId, queue, unfinished, workers,
                    running, scaler, shutdown, stopping, leader, circuit, bucket, accepts,
                    snap, starts, crashes, ret, peer, upd>>

\* the handler raises, or the attempt times out
AttemptFails(w) ==
  LET id == wk[w].tid
      s == tasks[id].service
      f == AttemptFailed(tasks[id], circuit[s], wk[w])
  IN /\ wk[w].pc = "run" /\ wk[w].rpc = "attempt"
     /\ ~env.reliable
     /\ tasks' = [tasks EXCEPT ![id] = f.task]
     /\ circuit' = [circuit EXCEPT ![s] = f.circ]
     /\ wk' = [wk EXCEPT ![w] = [@ EXCEPT !.rpc = IF f.last THEN "err" ELSE "backoff"]]
     /\ sem' = IF f.last /\ sem[s] # None THEN [sem EXCEPT ![s] = @ + 1] ELSE sem
     /\ UNCHANGED <<now, config, env, wal, walq, nextId, queue, unfinished, workers, running,
                    scaler, shutdown, stopping, leader, bucket, accepts, snap, starts, crashes, ret, peer, upd>>

\* the backoff sleep between two attempts ends
RetryAfterBackoff(w) ==
  /\ wk[w].pc = "run" /\ wk[w].rpc = "backoff"
  /\ LET go == BeginAttempt(w, wk[w].tid, wk[w].attempt + 1, tasks, circuit, sem, wk)
     IN tasks' = go.tasks /\ circuit' = go.circuit /\ sem' = go.sem /\ wk' = go.wk
  /\ UNCHANGED <<now, config, env, wal, walq, nextId, queue, unfinished, workers, running,
                 scaler, shutdown, stopping, leader, bucket, accepts, snap, starts, crashes, ret, peer, upd>>

\* Orchestrator._worker from `task.result = await runner` to the suspension in
\* the WAL append of its finally block
WorkerRunnerDone(w) ==
  LET id == wk[w].tid
      t == tasks[id]
      raised == wk[w].exc \/ wk[w].rpc = "cancelled"
      after == IF raised THEN t
               ELSE IF wk[w].rpc = "ok"
                    THEN [t EXCEPT !.result = Return(id), !.status = "succeeded"]
                    ELSE [t EXCEPT !.status = "failed"]
  IN /\ wk[w].pc = "run"
     /\ wk[w].exc \/ wk[w].rpc \in {"ok", "err", "cancelled"}
     /\ tasks' = [tasks EXCEPT ![id] = [after EXCEPT !.end_time = now]]
     /\ circuit' = IF ~raised /\ wk[w].rpc = "ok"
                   THEN [circuit EXCEPT ![t.service] = RecordSuccess(@)] ELSE circuit
     /\ running' = [running EXCEPT ![id] = 0]
     /\ walq' = Append(walq, [rec |-> StatusRecord(id, after.status), owner |-> w])
     /\ wk' = [wk EXCEPT ![w] = [@ EXCEPT !.pc = "wal", !.rpc = "-", !.attempt = 0, !.exc = raised]]
     /\ UNCHANGED <<now, config, env, wal, nextId, queue, unfinished, workers, scaler,
                    shutdown, stopping, leader, sem, bucket, accepts, snap, starts, crashes, ret, peer, upd>>

\* a write that puts the line at the beginning of the file
WrittenFirst(log, rec) == <<rec>> \o log
\* WriteAheadLog._write: `f.write(line + "\n")` at the end of the file; after a
\* line without newline the record continues that line
Written(log, rec) ==
  IF log # <<>> /\ log[Len(log)].event = "torn"
  THEN [log EXCEPT ![Len(log)] = Malformed("bad")]
  ELSE Append(log, rec)

\* WriteAheadLog._read: json.loads of every line
Readable(log) == \A i \in DOMAIN log : log[i].event \notin {"torn", "bad"}

\* WriteAheadLog._write: the line of the append that holds the lock reaches the
\* file, and the coroutine that appended it goes on: a worker calls task_done()
\* and loops, or ends with the CancelledError its finally block was run for
WalWrite ==
  /\ walq # <<>>
  /\ LET e == Head(walq)
         w == e.owner
     IN /\ wal' = Written(wal, e.rec)
        /\ walq' = Tail(walq)
        /\ IF w = 0
           THEN UNCHANGED <<wk, unfinished>>
           ELSE /\ unfinished' = unfinished - 1
                /\ wk' = [wk EXCEPT ![w] = IF wk[w].exc THEN Exited(w \in Range(workers))
                                           ELSE LoopTop(w, shutdown)]
  /\ UNCHANGED <<now, config, env, tasks, nextId, queue, workers, running, scaler,
                 shutdown, stopping, leader, circuit, sem, bucket, accepts, snap, starts,
                 crashes, ret, peer, upd>>

\* WriteAheadLog._write raises OSError (the disk is full, the file cannot be
\* opened): nothing reaches the file, the lock is released and the append
\* call raises in the coroutine that made it.  add_task and cancel_task end
\* with the error; a worker ends in its finally block, before task_done();
\* the task update_config created for the append ends unobserved.
WalWriteFails ==
  /\ walq # <<>>
  /\ LET e == Head(walq)
         w == e.owner
     IN /\ walq' = Tail(walq)
        /\ wk' = IF w = 0 THEN wk ELSE [wk EXCEPT ![w] = Exited(w \in Range(workers))]
        /\ ret' = IF w = 0 /\ e.rec.event # "config_override" THEN "error" ELSE ret
  /\ UNCHANGED <<now, config, env, wal, tasks, nextId, queue, unfinished, workers, running,
                 scaler, shutdown, stopping, leader, circuit, sem, bucket, accepts, snap,
                 starts, crashes, peer, upd>>

(* ------------------------------ lifecycle ----------------------------- *)

\* FileLeaderElector.acquire by orchestrator `who` (1: this one, 2: the peer),
\* as [ok, lock]: flock(LOCK_EX | LOCK_NB) fails while another open file holds
\* the lock (0: nobody holds it)
AcquireBlind(l, who) == [ok |-> TRUE, lock |-> who]
Acquire(l, who) == IF l = 0 THEN [ok |-> TRUE, lock |-> who] ELSE [ok |-> FALSE, lock |-> l]

\* FileLeaderElector.release
Release(l, who) == IF l = who THEN 0 ELSE l

\* Orchestrator.start: the leader lock, _recover, the first worker, the autoscaler
Start ==
  LET replayed == ReplayAll(tasks, wal, 1, now)
      w == CHOOSE x \in FreeSlots : \A y \in FreeSlots : x <= y
  IN /\ starts < env.starts
     /\ workers = <<>> /\ scaler = "none"
     /\ Acquire(leader, 1).ok
     /\ Readable(wal)
     /\ FreeSlots # {}
     /\ leader' = Acquire(leader, 1).lock
     /\ tasks' = ResetPending(replayed)
     /\ queue' = PutAll(queue, replayed, 1)
     /\ unfinished' = unfinished + Cardinality(Requeued(replayed))
     /\ shutdown' = FALSE
     /\ workers' = <<w>>
     /\ wk' = [wk EXCEPT ![w] = IdleWorker]
     /\ scaler' = "run"
     /\ starts' = starts + 1
     /\ ret' = "ok"
     /\ UNCHANGED <<now, config, env, wal, walq, nextId, running, stopping, circuit, sem,
                    bucket, accepts, snap, crashes, peer, upd>>

\* Orchestrator.start while another orchestrator holds the lock:
\* RuntimeError("orchestrator already active"), before _recover and the workers
StartRefused ==
  /\ workers = <<>> /\ scaler = "none"
  /\ ~Acquire(leader, 1).ok
  /\ ret' = "error"
  /\ UNCHANGED <<now, config, env, wal, walq, tasks, nextId, queue, unfinished, workers, wk,
                 running, scaler, shutdown, stopping, leader, circuit, sem, bucket,
                 accepts, snap, starts, crashes, peer, upd>>

\* Orchestrator.start on a WAL with a line that json.loads rejects: _recover
\* raises JSONDecodeError out of start(), after the lock was taken and before
\* any task is rebuilt or any worker created
StartFails ==
  /\ workers = <<>> /\ scaler = "none"
  /\ Acquire(leader, 1).ok
  /\ ~Readable(wal)
  /\ leader' = Acquire(leader, 1).lock
  /\ ret' = "error"
  /\ UNCHANGED <<now, config, env, wal, walq, tasks, nextId, queue, unfinished, workers, wk,
                 running, scaler, shutdown, stopping, circuit, sem, bucket,
                 accepts, snap, starts, crashes, peer, upd>>

\* Orchestrator.start of the peer: only its lock and whether it is active are
\* part of the state
PeerStart ==
  /\ peer = "idle"
  /\ Acquire(leader, 2).ok
  /\ leader' = Acquire(leader, 2).lock
  /\ peer' = "active"
  /\ ret' = "ok"
  /\ UNCHANGED <<now, config, env, wal, walq, tasks, nextId, queue, unfinished, workers, wk,
                 running, scaler, shutdown, stopping, circuit, sem, bucket,
                 accepts, snap, starts, crashes, upd>>

\* Orchestrator.start of the peer while this orchestrator holds the lock
PeerStartRefused ==
  /\ peer = "idle"
  /\ ~Acquire(leader, 2).ok
  /\ ret' = "error"
  /\ UNCHANGED <<now, config, env, wal, walq, tasks, nextId, queue, unfinished, workers, wk,
                 running, scaler, shutdown, stopping, leader, circuit, sem, bucket,
                 accepts, snap, starts, crashes, peer, upd>>

\* Orchestrator.stop of the peer
PeerStop ==
  /\ peer = "active"
  /\ leader' = Release(leader, 2)
  /\ peer' = "idle"
  /\ ret' = "ok"
  /\ UNCHANGED <<now, config, env, wal, walq, tasks, nextId, queue, unfinished, workers, wk,
                 running, scaler, shutdown, stopping, circuit, sem, bucket,
                 accepts, snap, starts, crashes, upd>>

\* Orchestrator.start on an orchestrator that has workers or an autoscaler:
\* `if self._workers or self._scaler: return`
StartAgain ==
  /\ workers # <<>> \/ scaler # "none"
  /\ ret' = "ok"
  /\ UNCHANGED <<now, config, env, wal, walq, tasks, nextId, queue, unfinished, workers, wk,
                 running, scaler, shutdown, stopping, leader, circuit, sem, bucket,
                 accepts, snap, starts, crashes, peer, upd>>

\* Orchestrator.stop up to its gather: the flag, the autoscaler cancelled, every
\* listed worker cancelled.  (While stop() waits for the cancelled autoscaler
\* nothing reads the flag but workers about to be cancelled.)
Stop ==
  LET W == Range(workers)
  IN /\ scaler = "run"
     /\ ~stopping
     /\ shutdown' = TRUE
     /\ scaler' = "none"
     /\ wk' = [w \in WorkerIds |-> IF w \in W THEN CancelledWorker(wk[w], TRUE) ELSE wk[w]]
     /\ sem' = SemAfterCancel(W)
     /\ walq' = WalqAfterCancel(W)
     /\ stopping' = TRUE
     /\ UNCHANGED <<now, config, env, wal, tasks, nextId, queue, unfinished, workers,
                    running, leader, circuit, bucket, accepts, snap, starts, crashes, ret, peer, upd>>

\* Orchestrator.stop after its gather: every listed worker has ended
StopReturns ==
  /\ stopping
  /\ \A w \in Range(workers) : wk[w].pc = "dead"
  /\ workers' = <<>>
  /\ wk' = [w \in WorkerIds |-> IF w \in Range(workers) THEN NoWorker ELSE wk[w]]
  /\ leader' = Release(leader, 1)
  /\ stopping' = FALSE
  /\ ret' = "ok"
  /\ UNCHANGED <<now, config, env, wal, walq, tasks, nextId, queue, unfinished, running,
                 scaler, shutdown, circuit, sem, bucket, accepts, snap, starts, crashes, peer, upd>>

\* a target that is max_concurrency whatever the queue holds
DesiredIgnoresQueue == config.max_concurrency
\* Orchestrator._autoscale: the number of workers an iteration aims at
Desired == Min(config.max_concurrency, Max(1, Len(queue)))

\* Orchestrator._autoscale, an iteration that spawns workers
AutoscaleUp ==
  LET n == Desired - Len(workers)
      new == LowestN(FreeSlots, n)
  IN /\ scaler = "run"
     /\ n > 0
     /\ Len(new) = n
     /\ workers' = workers \o new
     /\ wk' = [w \in WorkerIds |-> IF w \in Range(new) THEN IdleWorker ELSE wk[w]]
     /\ UNCHANGED <<now, config, env, wal, walq, tasks, nextId, queue, unfinished, running,
                    scaler, shutdown, stopping, leader, circuit, sem, bucket, accepts,
                    snap, starts, crashes, ret, peer, upd>>

\* Orchestrator._autoscale, an iteration that pops and cancels workers
AutoscaleDown ==
  LET n == Len(workers) - Desired
      keep == SubSeq(workers, 1, Desired)
      W == Range(workers) \ Range(keep)
  IN /\ scaler = "run"
     /\ n > 0
     /\ workers' = keep
     /\ wk' = [w \in WorkerIds |-> IF w \in W THEN CancelledWorker(wk[w], FALSE) ELSE wk[w]]
     /\ sem' = SemAfterCancel(W)
     /\ walq' = WalqAfterCancel(W)
     /\ UNCHANGED <<now, config, env, wal, tasks, nextId, queue, unfinished, running,
                    scaler, shutdown, stopping, leader, circuit, bucket, accepts, snap,
                    starts, crashes, ret, peer, upd>>

\* Orchestrator.__init__: the in-memory state of a new orchestrator
NewSem(cfg) == [s \in Services |-> cfg.service_concurrency[s]]
NewBuckets(cfg, t) == [s \in Services |-> NewBucket(cfg.service_rate_limits[s], t)]

\* the process dies: everything in memory is lost, the operating system drops
\* the file lock; a new orchestrator is constructed
Dies ==
  /\ crashes < MaxCrashes
  /\ crashes' = crashes + 1
  /\ snap' = [id \in TaskIds |-> tasks[id].status]
  /\ tasks' = [id \in TaskIds |-> NoTask]
  /\ queue' = <<>>
  /\ unfinished' = 0
  /\ walq' = <<>>
  /\ workers' = <<>>
  /\ wk' = [w \in WorkerIds |-> NoWorker]
  /\ running' = [id \in TaskIds |-> 0]
  /\ scaler' = "none"
  /\ shutdown' = FALSE
  /\ stopping' = FALSE
  /\ leader' = Release(leader, 1)
  /\ circuit' = [s \in Services |-> NewCircuit]
  /\ sem' = NewSem(config)
  /\ bucket' = NewBuckets(config, now)
  /\ accepts' = <<>>
  /\ ret' = "-"
  /\ UNCHANGED <<now, config, env, nextId, starts, peer, upd>>

\* a crash that leaves the WAL file as it is: no write was in progress, or
\* nothing of the line had reached the file
Crash == Dies /\ wal' = wal

\* a crash in the middle of WriteAheadLog._write: the beginning of the line is
\* in the file
CrashTorn == walq # <<>> /\ Dies /\ wal' = Written(wal, Malformed("torn"))

(* --------------------------- specifications --------------------------- *)

NoLimit == [on |-> FALSE, capacity |-> 0, rate |-> 0]

InitWith(cfg, e) ==
  /\ now = 1
  /\ config = cfg
  /\ env = e
  /\ wal = <<>>
  /\ walq = <<>>
  /\ tasks = [id \in TaskIds |-> NoTask]
  /\ nextId = 1
  /\ queue = <<>>
  /\ unfinished = 0
  /\ workers = <<>>
  /\ wk = [w \in WorkerIds |-> NoWorker]
  /\ running = [id \in TaskIds |-> 0]
  /\ scaler = "none"
  /\ shutdown = FALSE
  /\ stopping = FALSE
  /\ leader = 0
  /\ circuit = [s \in Services |-> NewCircuit]
  /\ sem = NewSem(cfg)
  /\ bucket = NewBuckets(cfg, 1)
  /\ accepts = <<>>
  /\ snap = [id \in TaskIds |-> "absent"]
  /\ starts = 0
  /\ crashes = 0
  /\ ret = "-"
  /\ peer = "idle"
  /\ upd = [n |-> 0, overrides |-> <<>>, changes |-> NoChanges, raised |-> FALSE]

\* two workers at most, one permit for "svc", a circuit that opens at the
\* second failure and stays open, two attempts per task, no rate limit
BaseConfig ==
  [max_concurrency |-> 2, retry_attempts |-> 2,
   circuit_breaker_threshold |-> 2, circuit_breaker_timeout |-> 0,
   service_concurrency |-> [s \in Services |-> IF s = "svc" THEN 1 ELSE None],
   service_rate_limits |-> [s \in Services |-> NoLimit]]

Submit == \E s \in env.services, p \in Priorities, d \in env.deadlines : AddTask(s, p, d)
SubmitRejected == \E s \in env.services : AddTaskRejected(s)
Cancel == \E id \in TaskIds : CancelTask(id)
CancelRefused == \E id \in TaskIds : CancelTaskRefused(id)

\* the steps of workers and runners while handlers return
GoodSteps ==
  \/ \E w \in WorkerIds : WorkerGet(w)
  \/ \E w \in WorkerIds : RunnerAcquire(w)
  \/ \E w \in WorkerIds : AttemptReturns(w)
  \/ \E w \in WorkerIds : WorkerRunnerDone(w)
  \/ WalWrite

\* the steps that follow a failed attempt
FailSteps ==
  \/ \E w \in WorkerIds : AttemptFails(w)
  \/ \E w \in WorkerIds : RetryAfterBackoff(w)
  \/ \E w \in WorkerIds : WorkerRequeue(w)

Autoscale == AutoscaleUp \/ AutoscaleDown

(* The general specification: an orchestrator that is started, as in        *)
(* `async with Orchestrator(config, services) as orch`, before tasks are    *)
(* submitted, cancelled and run, and is stopped at some point.              *)
Init ==
  InitWith(BaseConfig,
           [budget |-> MaxTasks, horizon |-> 1, reliable |-> FALSE,
            services |-> Services, deadlines |-> {None},
            starts |-> MaxStarts])

Next ==
  \/ Start /\ nextId = 1
  \/ Submit /\ starts > 0
  \/ Cancel
  \/ GoodSteps
  \/ FailSteps
  \/ Autoscale
  \/ Stop
  \/ StopReturns

Spec == Init /\ [][Next]_vars

(* The cancellation specification: tasks of both services with handlers     *)
(* that return, cancel_task called at any time for any id, known or not.    *)
InitCancel ==
  InitWith(BaseConfig,
           [budget |-> MaxCancelTasks, horizon |-> 1, reliable |-> TRUE,
            services |-> Services, deadlines |-> {None},
            starts |-> MaxStarts])

NextCancel ==
  \/ Start /\ nextId = 1
  \/ Submit /\ starts > 0
  \/ Cancel
  \/ CancelRefused
  \/ GoodSteps
  \/ Autoscale

SpecCancel == InitCancel /\ [][NextCancel]_vars

(* The leader specification: this orchestrator and a peer constructed on    *)
(* the same lock path, each started and stopped at any time; tasks are      *)
(* submitted once this orchestrator was started, their handlers return.     *)
InitLeader ==
  InitWith(BaseConfig,
           [budget |-> MaxLeaderTasks, horizon |-> 1, reliable |-> TRUE,
            services |-> {"svc"}, deadlines |-> {None},
            starts |-> MaxStarts])

NextLeader ==
  \/ Start
  \/ StartRefused
  \/ StartAgain
  \/ PeerStart
  \/ PeerStartRefused
  \/ PeerStop
  \/ Submit /\ starts > 0
  \/ GoodSteps
  \/ Autoscale
  \/ Stop
  \/ StopReturns

SpecLeader == InitLeader /\ [][NextLeader]_vars

(* The restart specification: one task, submitted before or after start(),  *)
(* handlers that return, with stop(), a second start() and a crash of the   *)
(* process.                                                                 *)
InitRestart ==
  InitWith(BaseConfig,
           [budget |-> MaxRestartTasks, horizon |-> 1, reliable |-> TRUE,
            services |-> Services, deadlines |-> {None},
            starts |-> MaxStarts])

NextRestart ==
  \/ Start
  \/ Submit
  \/ Cancel
  \/ GoodSteps
  \/ Autoscale
  \/ Stop
  \/ StopReturns
  \/ Crash

SpecRestart == InitRestart /\ [][NextRestart]_vars

(* The replay specification: a first life of the process in which tasks are  *)
(* submitted to a started orchestrator, cancelled, and run by handlers that *)
(* return, ended by a crash;                                                *)
(* then a new orchestrator on the same WAL on which the client calls only   *)
(* start() and stop(), each awaited before the next.                        *)
InitReplay ==
  InitWith(BaseConfig,
           [budget |-> MaxReplayTasks, horizon |-> 1, reliable |-> TRUE,
            services |-> Services, deadlines |-> {None},
            starts |-> MaxRestarts])

NextReplay ==
  \/ crashes = 0 /\ Start /\ nextId = 1
  \/ crashes = 0 /\ Submit /\ starts > 0
  \/ crashes = 0 /\ Cancel
  \/ crashes = 0 /\ GoodSteps
  \/ crashes = 0 /\ Autoscale
  \/ crashes = 0 /\ Crash
  \/ crashes > 0 /\ Start
  \/ crashes > 0 /\ Stop
  \/ crashes > 0 /\ StopReturns

SpecReplay == InitReplay /\ [][NextReplay]_vars

(* The dispatch-order specification: more tasks, all of service "svc",      *)
(* whose handler may fail, so that entries reach the queue from add_task    *)
(* and from the circuit-open requeue; no cancellation, no stop().           *)
InitQueue ==
  InitWith(BaseConfig,
           [budget |-> MaxQueueTasks, horizon |-> 1, reliable |-> FALSE,
            services |-> {"svc"}, deadlines |-> {None},
            starts |-> MaxStarts])

NextQueue ==
  \/ Start /\ nextId = 1
  \/ Submit /\ starts > 0
  \/ GoodSteps
  \/ FailSteps
  \/ Autoscale

SpecQueue == InitQueue /\ [][NextQueue]_vars

(* The retry specification: tasks of service "svc" without deadline on a     *)
(* started orchestrator, for every retry_attempts within the bound; each    *)
(* attempt of the handler may return or fail; no cancellation, no stop().   *)
InitRetry ==
  \E r \in 1..MaxRetry :
    InitWith([BaseConfig EXCEPT !.retry_attempts = r],
             [budget |-> MaxRetryTasks, horizon |-> 1, reliable |-> FALSE,
              services |-> {"svc"}, deadlines |-> {None},
              starts |-> MaxStarts])

NextRetry ==
  \/ Start /\ nextId = 1
  \/ Submit /\ starts > 0
  \/ GoodSteps
  \/ FailSteps
  \/ Autoscale

SpecRetry == InitRetry /\ [][NextRetry]_vars

\* the keys of an admin request: two runtime-mutable fields, a field that is
\* not runtime-mutable, a name of the class, a name of nothing
OverrideKeys == {"max_concurrency", "retry_attempts", "service_concurrency", "from_file", "bogus"}
OverrideValues(k) ==
  IF k = "max_concurrency" THEN {2}
  ELSE IF k = "retry_attempts" THEN 1..2
  ELSE IF k = "service_concurrency" THEN {[s \in Services |-> None]}
  ELSE {0}

Override ==
  \/ \E k \in OverrideKeys : \E v \in OverrideValues(k) : UpdateConfig(<<<<k, v>>>>)
  \/ \E k1 \in OverrideKeys, k2 \in OverrideKeys :
       /\ k1 # k2
       /\ \E v1 \in OverrideValues(k1), v2 \in OverrideValues(k2) :
            UpdateConfig(<<<<k1, v1>>, <<k2, v2>>>>)

(* The configuration specification: an orchestrator with max_concurrency 1  *)
(* whose configuration is overridden through the admin endpoint, with one   *)
(* or two keys, while tasks are submitted and run by handlers that return.  *)
InitConfig ==
  InitWith([BaseConfig EXCEPT !.max_concurrency = 1],
           [budget |-> MaxConfigTasks, horizon |-> 1, reliable |-> TRUE,
            services |-> {"svc"}, deadlines |-> {None},
            starts |-> MaxStarts])

NextConfig ==
  \/ Start /\ nextId = 1
  \/ Submit /\ starts > 0
  \/ Override
  \/ GoodSteps
  \/ Autoscale

SpecConfig == InitConfig /\ [][NextConfig]_vars

(* The scaling specification: a started orchestrator with max_concurrency 1  *)
(* whose max_concurrency is overridden to 2 at some point; handlers return, *)
(* the event loop runs every coroutine that can run and the autoscaler      *)
(* iterates for ever.                                                       *)
RaiseConcurrency == starts > 0 /\ UpdateConfig(<<<<"max_concurrency", 2>>>>)

NextScale ==
  \/ Start /\ nextId = 1
  \/ Submit /\ starts > 0
  \/ RaiseConcurrency
  \/ GoodSteps
  \/ Autoscale

SpecScale ==
  /\ InitConfig
  /\ [][NextScale]_vars
  /\ WF_vars(Start /\ nextId = 1)
  /\ \A w \in WorkerIds :
       /\ WF_vars(WorkerGet(w))
       /\ WF_vars(RunnerAcquire(w))
       /\ WF_vars(AttemptReturns(w))
       /\ WF_vars(WorkerRunnerDone(w))
  /\ WF_vars(WalWrite)
  /\ WF_vars(AutoscaleUp)
  /\ WF_vars(AutoscaleDown)

(* The torn-write specification: tasks submitted before or after start() and *)
(* run by handlers that return, a crash that may cut a WAL write short, and *)
(* start() on the new orchestrator.                                         *)
InitTorn ==
  InitWith(BaseConfig,
           [budget |-> MaxTornTasks, horizon |-> 1, reliable |-> TRUE,
            services |-> {"svc"}, deadlines |-> {None},
            starts |-> MaxStarts])

NextTorn ==
  \/ Start
  \/ StartFails
  \/ StartRefused
  \/ Submit
  \/ GoodSteps
  \/ Autoscale
  \/ Crash
  \/ CrashTorn

SpecTorn == InitTorn /\ [][NextTorn]_vars

(* The deadline specification: tasks with and without deadline submitted to *)
(* a started orchestrator while the clock runs; handlers return.            *)
InitDeadline ==
  InitWith(BaseConfig,
           [budget |-> MaxDeadlineTasks, horizon |-> DeadlineHorizon, reliable |-> TRUE,
            services |-> {"svc"}, deadlines |-> {None} \cup 1..(DeadlineHorizon - 1),
            starts |-> MaxStarts])

NextDeadline ==
  \/ Start /\ nextId = 1
  \/ Submit /\ starts > 0
  \/ Tick
  \/ GoodSteps
  \/ Autoscale

SpecDeadline == InitDeadline /\ [][NextDeadline]_vars

(* The override-and-stop specification: as the scaling specification,      *)
(* without fairness, and with stop() called at any time.                    *)
NextConfigStop ==
  \/ Start /\ nextId = 1
  \/ Submit /\ starts > 0
  \/ RaiseConcurrency
  \/ GoodSteps
  \/ Autoscale
  \/ Stop
  \/ StopReturns

SpecConfigStop == InitConfig /\ [][NextConfigStop]_vars

(* The write-failure specification: tasks submitted to a started           *)
(* orchestrator and run by handlers that return, while any write to the WAL *)
(* file may fail.                                                           *)
InitDisk ==
  InitWith(BaseConfig,
           [budget |-> MaxDiskTasks, horizon |-> 1, reliable |-> TRUE,
            services |-> {"svc"}, deadlines |-> {None},
            starts |-> 1])

NextDisk ==
  \/ Start /\ nextId = 1
  \/ Submit /\ starts > 0
  \/ GoodSteps
  \/ WalWriteFails
  \/ Autoscale

SpecDisk == InitDisk /\ [][NextDisk]_vars

(* The expiry specification: tasks with and without deadline submitted to   *)
(* a started orchestrator while the clock runs; every attempt may return or *)
(* fail, so that a deadline can pass between two attempts.                  *)
InitExpiry ==
  InitWith(BaseConfig,
           [budget |-> MaxExpiryTasks, horizon |-> DeadlineHorizon, reliable |-> FALSE,
            services |-> {"svc"}, deadlines |-> {None} \cup 1..(DeadlineHorizon - 1),
            starts |-> 1])

NextExpiry ==
  \/ Start /\ nextId = 1
  \/ Submit /\ starts > 0
  \/ Tick
  \/ GoodSteps
  \/ FailSteps
  \/ Autoscale

SpecExpiry == InitExpiry /\ [][NextExpiry]_vars

(* The circuit-breaker specification: tasks of service "svc" on a started   *)
(* orchestrator while the clock runs; every attempt may return or fail; the *)
(* circuit opens at the first or the second failure and cools down in       *)
(* CircuitCooldown ticks; no cancel_task, no stop().                        *)
InitCircuit ==
  \E th \in 1..MaxThreshold :
    InitWith([BaseConfig EXCEPT !.circuit_breaker_threshold = th,
                                !.circuit_breaker_timeout = CircuitCooldown],
             [budget |-> MaxCircuitTasks, horizon |-> CircuitHorizon, reliable |-> FALSE,
              services |-> {"svc"}, deadlines |-> {None},
              starts |-> 1])

NextCircuit ==
  \/ Start /\ nextId = 1
  \/ Submit /\ starts > 0
  \/ Tick
  \/ GoodSteps
  \/ FailSteps
  \/ Autoscale

SpecCircuit == InitCircuit /\ [][NextCircuit]_vars

(* The rate-limit specification: add_task on a service with a token bucket, *)
(* for every capacity and refill rate within the bounds, as the clock runs. *)
InitBucket ==
  \E c \in 1..MaxCapacity, r \in 0..MaxRate :
    InitWith([BaseConfig EXCEPT
                !.service_rate_limits =
                   [s \in Services |-> IF s = "svc"
                                       THEN [on |-> TRUE, capacity |-> c, rate |-> r]
                                       ELSE NoLimit]],
             [budget |-> MaxBucketTasks, horizon |-> BucketHorizon, reliable |-> TRUE,
              services |-> {"svc"}, deadlines |-> {None},
              starts |-> MaxStarts])

NextBucket ==
  \/ Submit
  \/ SubmitRejected
  \/ Tick
  \/ WalWrite

SpecBucket == InitBucket /\ [][NextBucket]_vars

(* The liveness specification: a started orchestrator that is never         *)
(* stopped, handlers that return, no cancellation.  The event loop runs     *)
(* every coroutine that can run, and the autoscaler iterates for ever.      *)
InitLive ==
  \E m \in 1..2 :
    InitWith([BaseConfig EXCEPT !.max_concurrency = m],
             [budget |-> MaxLiveTasks, horizon |-> 1, reliable |-> TRUE,
              services |-> {"svc"}, deadlines |-> {None},
              starts |-> MaxStarts])

NextLive ==
  \/ Start /\ nextId = 1
  \/ Submit /\ starts > 0
  \/ GoodSteps
  \/ Autoscale

SpecLive ==
  /\ InitLive
  /\ [][NextLive]_vars
  /\ WF_vars(Start /\ nextId = 1)
  /\ \A w \in WorkerIds :
       /\ WF_vars(WorkerGet(w))
       /\ WF_vars(RunnerAcquire(w))
       /\ WF_vars(AttemptReturns(w))
       /\ WF_vars(WorkerRunnerDone(w))
  /\ WF_vars(WalWrite)
  /\ WF_vars(AutoscaleUp)
  /\ WF_vars(AutoscaleDown)

(* ------------------------------- claims ------------------------------- *)

InQueue(id) == \E i \in DOMAIN queue : queue[i].task_id = id

\* the workers that have dequeued the entry of task id and not yet called task_done()
Holders(id) == {w \in WorkerIds : wk[w].pc \in {"sleep", "run", "wal"} /\ wk[w].tid = id}

Logged(rec) == \E i \in DOMAIN wal : wal[i] = rec

Count(e, q) == Cardinality({i \in DOMAIN q : q[i] = e})

\* C1: a task whose status is succeeded, failed or cancelled keeps that status
\* and its result in every later step.
TerminalNeverChanges ==
  [][\A id \in TaskIds :
       tasks[id].status \in Terminal =>
         /\ tasks'[id].status = tasks[id].status
         /\ tasks'[id].result = tasks[id].result]_vars

\* C2: every task of the task store that is pending or running is either in the
\* queue or held by a live worker, never both and never neither.
QueuedXorHeld ==
  \A id \in TaskIds :
    tasks[id].status \in {"pending", "running"} => (InQueue(id) <=> Holders(id) = {})

\* C5: a task is in the task store or in the queue only once its add record is
\* in the WAL.
AddLoggedBeforeVisible ==
  \A id \in TaskIds :
    (tasks[id].status # "absent" \/ InQueue(id)) =>
      \E i \in DOMAIN wal : wal[i].event = "add" /\ wal[i].task_id = id

\* C6: a task that a worker has made succeeded or failed, and is done with, has
\* a WAL status record that carries this status.
WorkerTerminalLogged ==
  \A id \in TaskIds :
    (tasks[id].status \in {"succeeded", "failed"} /\ Holders(id) = {}) =>
      Logged(StatusRecord(id, tasks[id].status))

\* C7: when a worker dequeues an entry, every entry of the same priority that
\* stays in the queue belongs to a task submitted later (task ids grow with
\* the submissions): equal priorities are dispatched in submission order.
FifoWithinPriority ==
  [][Len(queue') = Len(queue) - 1 =>
       LET got == CHOOSE e \in Range(queue) : Count(e, queue') = Count(e, queue) - 1
       IN \A i \in DOMAIN queue' :
            queue'[i].priority = got.priority => queue'[i].task_id > got.task_id]_vars

\* C8: when a worker dequeues an entry, no entry that stays in the queue has a
\* strictly lower priority value.
LowestPriorityFirst ==
  [][Len(queue') = Len(queue) - 1 =>
       LET got == CHOOSE e \in Range(queue) : Count(e, queue') = Count(e, queue) - 1
       IN \A i \in DOMAIN queue' : queue'[i].priority >= got.priority]_vars

\* C8, its case: a task runs while a task submitted before it, with a higher
\* priority value, is still queued.
LaterTaskOvertakes ==
  \E w \in WorkerIds, i \in DOMAIN queue :
    /\ wk[w].pc = "run"
    /\ wk[w].tid > queue[i].task_id
    /\ tasks[wk[w].tid].priority < queue[i].priority

\* C9: of a service with concurrency cap k at most k tasks are running; with
\* k = 1, of two tasks of the service one starts no earlier than the other ends.
RunningWithinCap ==
  \A s \in Services :
    LET k == config.service_concurrency[s]
        mine == {id \in TaskIds : tasks[id].status # "absent" /\ tasks[id].service = s}
    IN k # None =>
         /\ Cardinality({id \in mine : tasks[id].status = "running"}) <= k
         /\ k = 1 =>
              \A a, b \in mine :
                (a # b /\ tasks[a].end_time # None /\ tasks[b].end_time # None) =>
                  \/ tasks[a].start_time >= tasks[b].end_time
                  \/ tasks[b].start_time >= tasks[a].end_time

\* C10: for a service with a token bucket (capacity, rate), the add_task calls
\* accepted between any two accepted calls number at most capacity plus rate
\* times the time between them (tokens counted in units of 1/TokenUnit); with
\* capacity 1 an add_task at the clock reading of the last accepted one is
\* rejected, and one issued 1/rate later or more is accepted.
AcceptedWithinBucket ==
  LET b == bucket["svc"]
      n == Len(accepts)
  IN b.on =>
       /\ \A i, j \in DOMAIN accepts :
            i <= j => (j - i + 1) * TokenUnit
                        <= b.capacity * TokenUnit + b.refill_rate * (accepts[j] - accepts[i])
       /\ (b.capacity = 1 /\ n > 0 /\ accepts[n] = now) => ~Consume(b, now).allowed
       /\ (b.capacity = 1 /\ n > 0 /\ (now - accepts[n]) * b.refill_rate >= TokenUnit)
            => Consume(b, now).allowed

\* C10, its case: a bucket of capacity 1 has accepted a call, refilled, accepted
\* a second one exactly 1/rate later, and rejects a further immediate call
BucketRefilledAndEmptied ==
  LET b == bucket["svc"]
      n == Len(accepts)
  IN /\ b.on /\ b.capacity = 1 /\ b.refill_rate > 0
     /\ n >= 2
     /\ accepts[n] = now
     /\ (accepts[n] - accepts[n - 1]) * b.refill_rate = TokenUnit
     /\ ~Consume(b, now).allowed

NonTerminal(st) == {id \in TaskIds : st[id] \in {"pending", "running"}}

\* C4: when a fresh orchestrator is started on the WAL that a crash left, the
\* non-terminal tasks after start() are the tasks that were non-terminal when
\* the process died, and every task that was terminal then has the same
\* terminal status.
RecoveryRestoresTasks ==
  [][(/\ crashes > 0
      /\ starts' = starts + 1
      /\ \A id \in TaskIds : tasks[id].status = "absent")
     => /\ NonTerminal([id \in TaskIds |-> tasks'[id].status]) = NonTerminal(snap)
        /\ \A id \in TaskIds : snap[id] \in Terminal => tasks'[id].status = snap[id]]_vars

\* C3: while the orchestrator is started and never stopped, every task that was
\* submitted to the registered service, whose handler returns, that has no
\* deadline and is never cancelled, eventually has status succeeded and the
\* handler's return value as its result.
SubmittedEventuallySucceeds ==
  \A id \in 1..MaxLiveTasks :
    (tasks[id].status = "pending")
      ~> (tasks[id].status = "succeeded" /\ tasks[id].result = Return(id))

\* C11: an add_task call that is rejected because the token bucket of the
\* service is exhausted raises the error and leaves the task store, the queue
\* and the WAL (written or being appended) as they were: no task is created.
RejectedAddChangesNothing ==
  [][(ret' = "error" /\ (ret # "error" \/ bucket' # bucket))
     => /\ ~Consume(bucket["svc"], now).allowed
        /\ UNCHANGED <<tasks, nextId, queue, unfinished, wal, walq, accepts>>]_vars

\* C11, its case: a bucket of capacity 1 that accepted a call has rejected a
\* later one (it holds a fraction of a token and was read at this clock reading)
RejectedCallSeen ==
  LET b == bucket["svc"]
  IN /\ b.on /\ b.capacity = 1
     /\ ret = "error"
     /\ Len(accepts) >= 1
     /\ b.updated = now /\ accepts[Len(accepts)] < now
     /\ b.tokens > 0 /\ b.tokens < TokenUnit

\* a step in which the runner of worker w starts an attempt (an invocation of
\* the handler) for task id
AttemptBegins(w, id) ==
  /\ wk'[w].pc = "run" /\ wk'[w].rpc = "attempt" /\ wk'[w].tid = id
  /\ ~(wk[w].pc = "run" /\ wk[w].rpc = "attempt" /\ wk[w].tid = id
       /\ wk[w].attempt = wk'[w].attempt)

CancelRecord(id) == [rec |-> StatusRecord(id, "cancelled"), owner |-> 0]

\* C12: in a started orchestrator, cancel_task on a pending task returns True,
\* sets the status to cancelled and appends the WAL status record "cancelled"
\* (the record is written or waits for the WAL lock); from then on the task
\* stays as it is and no handler attempt is started for it, also when a worker
\* dequeues its entry.
CancelledPendingNeverRuns ==
  [][\A id \in TaskIds :
       /\ (tasks[id].status = "pending" /\ tasks'[id].status = "cancelled")
            => /\ ret' = "ok"
               /\ walq' = Append(walq, CancelRecord(id))
               /\ queue' = queue
       /\ (tasks[id].status = "cancelled" /\ tasks[id].start_time = None)
            => /\ tasks'[id] = tasks[id]
               /\ \A w \in WorkerIds : ~AttemptBegins(w, id)
               /\ \/ Logged(StatusRecord(id, "cancelled"))
                  \/ CancelRecord(id) \in Range(walq)]_vars

\* C12, its case: a task was cancelled while pending, its record is in the WAL,
\* and a worker has dequeued and dropped its entry
CancelledEntryDropped ==
  \E id \in TaskIds :
    /\ tasks[id].status = "cancelled" /\ tasks[id].start_time = None
    /\ Logged(StatusRecord(id, "cancelled"))
    /\ ~InQueue(id)
    /\ \A w \in WorkerIds : wk[w].tid # id
    /\ unfinished = 0

\* C13: once cancel_task has cancelled a running task (a task that has a
\* start_time), the status stays cancelled whatever the worker that executes it
\* does next, and no further handler attempt is started for it.
CancelledRunningStaysCancelled ==
  [][\A id \in TaskIds :
       (tasks[id].status = "cancelled" /\ tasks[id].start_time # None)
         => /\ tasks'[id].status = "cancelled"
            /\ \A w \in WorkerIds : ~AttemptBegins(w, id)]_vars

\* C14: cancel_task on an id the task store does not hold, or on a task that
\* is succeeded, failed or cancelled, returns False and leaves the task store,
\* the queue, the running handlers and the WAL as they were; no cancel_task
\* step cancels such a task or appends a record for it.
RefusedCancelChangesNothing ==
  [][/\ (ret' = "refused" /\ ret # "refused")
          => UNCHANGED <<tasks, queue, unfinished, running, wk, sem, wal, walq>>
     /\ \A id \in TaskIds :
          tasks[id].status \in Terminal \cup {"absent"}
            => /\ ~(Len(walq') = Len(walq) + 1 /\ walq'[Len(walq')] = CancelRecord(id))
               /\ (tasks'[id].status = "cancelled" => tasks[id].status = "cancelled")]_vars

\* C14, its case: cancel_task has just returned False while the store holds a
\* succeeded task and a cancelled task
CancelRefusedSeen ==
  /\ ret = "refused"
  /\ \E id \in TaskIds : tasks[id].status = "succeeded"
  /\ \E id \in TaskIds : tasks[id].status = "cancelled"

\* C15: whenever join() can return (every queue entry has been answered by
\* task_done), the queue is empty and no task of the task store is pending or
\* running.
JoinReturnsWhenSettled ==
  JoinReturns => /\ queue = <<>>
                 /\ \A id \in TaskIds : tasks[id].status \notin {"pending", "running"}

\* C16: of two orchestrators on one leader lock path at most one is active:
\* this orchestrator has workers or an autoscaler only while it holds the lock,
\* the peer is active only while it holds the lock, and a start() that finds
\* the lock held raises the error, spawns no worker, recovers nothing and
\* leaves the lock, the workers and the tasks of the other as they are.
OneActiveOrchestrator ==
  [][/\ (workers' # <<>> \/ scaler' = "run") => leader' = 1
     /\ peer' = "active" => leader' = 2
     /\ (ret' = "error" /\ ret # "error")
          => /\ leader # 0
             /\ UNCHANGED <<leader, peer, workers, wk, scaler, shutdown, tasks, queue,
                            unfinished, running, wal, walq, starts>>]_vars

\* C16, its case: this orchestrator is started and holds the lock, and the
\* start() of the peer has just been refused
PeerRefusedWhileActive ==
  /\ scaler = "run" /\ workers # <<>> /\ leader = 1
  /\ peer = "idle"
  /\ ret = "error"
  /\ \E id \in TaskIds : tasks[id].status = "running"

\* C17: when stop() returns, the orchestrator has no worker coroutine and no
\* autoscaler left and the leader lock is free, so that the lock can be taken
\* by a start() of this orchestrator or of the peer.
StopLeavesNothing ==
  [][(stopping /\ ~stopping')
     => /\ workers' = <<>>
        /\ \A w \in WorkerIds : wk'[w].pc = "none"
        /\ scaler' = "none"
        /\ leader' = 0
        /\ Acquire(leader', 1).ok /\ Acquire(leader', 2).ok]_vars


QueuedIds(q) == {q[i].task_id : i \in DOMAIN q}

Entries(id, q) == Cardinality({i \in DOMAIN q : q[i].task_id = id})

\* C19: a task that was running when stop() was called or when the process
\* crashed is pending after the next start(), with exactly one entry on the queue.
RunningRecoveredOnce ==
  [][\A id \in TaskIds :
       (/\ starts' = starts + 1
        /\ \/ tasks[id].status = "running"
           \/ crashes > 0 /\ tasks[id].status = "absent" /\ snap[id] = "running")
         => /\ tasks'[id].status = "pending"
            /\ Entries(id, queue') = 1]_vars


ConfigFields == DOMAIN BaseConfig

\* the keys of the last update_config call
OverriddenKeys(ov) == {ov[i][1] : i \in DOMAIN ov}

\* C21: update_config returns; it sets every key of the overrides that names a
\* config field and returns {old, new} for exactly these keys; every other
\* key is ignored, and a call with no key of a config field changes nothing,
\* returns the empty map and appends nothing to the WAL.
OverridesAppliedOthersIgnored ==
  [][upd'.n = upd.n + 1 =>
       LET ov == upd'.overrides
           known == {i \in DOMAIN ov : ov[i][1] \in ConfigFields}
       IN /\ ~upd'.raised
          /\ DOMAIN upd'.changes = {ov[i][1] : i \in known}
          /\ \A i \in known :
               /\ config'[ov[i][1]] = ov[i][2]
               /\ upd'.changes[ov[i][1]] = [old |-> config[ov[i][1]], new |-> ov[i][2]]
          /\ \A k \in ConfigFields \ OverriddenKeys(ov) : config'[k] = config[k]
          /\ known = {} => config' = config /\ walq' = walq /\ wal' = wal]_vars


\* the fields that the configuration table marks as runtime-mutable
MutableFields ==
  {"max_concurrency", "retry_attempts", "circuit_breaker_threshold", "circuit_breaker_timeout"}

\* C22: no step changes a config field that is not runtime-mutable, whatever
\* the keys of an update_config call are.
OnlyMutableFieldsChange ==
  [][\A k \in ConfigFields \ MutableFields : config'[k] = config[k]]_vars


Overridden == upd.n > 0 /\ config.max_concurrency = 2

\* C23: once max_concurrency was overridden from 1 to 2 on a running
\* orchestrator, the pool eventually has 2 workers and keeps them.
OverrideConvergesToTwo == [](Overridden => <>[](Len(workers) = 2))

\* C23, amended: once max_concurrency was overridden from 1 to 2, the pool
\* eventually has, and keeps, as many workers as entries are queued, at least
\* 1 and at most 2.
OverrideConvergesToDepth ==
  [](Overridden => <>[](Len(workers) = Min(2, Max(1, Len(queue)))))

\* C23 witness: after the override the autoscaler has brought the pool to 2
\* workers while two entries were queued.
TwoWorkersAfterOverride ==
  /\ Overridden
  /\ Len(workers) = 2
  /\ Len(queue) = 2


\* the lines of the WAL before the last one
Earlier(log) == SubSeq(log, 1, Len(log) - 1)

\* C24: start() on a WAL whose last line alone is malformed succeeds and
\* rebuilds the tasks from the records before it; start() on a WAL with a
\* malformed line before the last one fails and rebuilds nothing.
TornTailTolerated ==
  [][(leader = 0 /\ leader' = 1 /\ ~Readable(wal)) =>
       IF Readable(Earlier(wal))
       THEN /\ ret' = "ok"
            /\ tasks' = ResetPending(ReplayAll(tasks, Earlier(wal), 1, now))
       ELSE /\ ret' = "error"
            /\ tasks' = tasks]_vars


\* a step in which a worker takes the entry of task id from the queue (the
\* queue loses its first entry, and not by the end of the process)
Dequeues(id) ==
  /\ queue # <<>>
  /\ HeapPop(queue).item.task_id = id
  /\ queue' = HeapPop(queue).heap
  /\ crashes' = crashes

\* C25: a pending task whose deadline has passed when a worker dequeues it is
\* failed by that step without an invocation of its handler, and is never
\* run afterwards.
DeadlinePassedNeverRuns ==
  [][\A id \in TaskIds :
       /\ (/\ Dequeues(id)
           /\ tasks[id].status = "pending"
           /\ tasks[id].deadline # None /\ now > tasks[id].deadline)
            => /\ tasks'[id].status = "failed"
               /\ tasks'[id].start_time = None
               /\ \A w \in WorkerIds : ~AttemptBegins(w, id)
       /\ (tasks[id].status = "failed" /\ tasks[id].start_time = None)
            => /\ tasks'[id] = tasks[id]
               /\ \A w \in WorkerIds : ~AttemptBegins(w, id)]_vars

\* C25 witness: one task was failed at its dequeue because its deadline had
\* passed, another with a deadline was dequeued in time and has succeeded.
LateTaskFailedUnrun ==
  /\ \E id \in TaskIds :
       /\ tasks[id].status = "failed" /\ tasks[id].start_time = None
       /\ tasks[id].deadline # None /\ now > tasks[id].deadline
  /\ \E id \in TaskIds :
       /\ tasks[id].status = "succeeded" /\ tasks[id].deadline # None


\* Orchestrator.status
Status ==
  [queue |-> Len(queue),
   tasks |-> [id \in {i \in TaskIds : tasks[i].status # "absent"} |-> tasks[id].status]]

\* C26: the queue depth that status() reports is the number of pending tasks
\* that no worker holds.
DepthCountsPending ==
  Status.queue = Cardinality({id \in TaskIds : tasks[id].status = "pending" /\ Holders(id) = {}})


\* C27: a worker that dequeues the entry of a task that is unknown or terminal
\* leaves the task as it is and starts no attempt for it.
TerminalEntryDiscarded ==
  [][\A id \in TaskIds :
       (Dequeues(id) /\ tasks[id].status \in Terminal \cup {"absent"})
         => /\ tasks'[id] = tasks[id]
            /\ \A w \in WorkerIds : ~AttemptBegins(w, id)]_vars


\* C28: every status record in the WAL comes after the add record of its
\* task.
AddBeforeStatus ==
  \A i \in DOMAIN wal :
    wal[i].event = "status" =>
      \E j \in 1..(i - 1) : wal[j].event = "add" /\ wal[j].task_id = wal[i].task_id

\* C28 witness: the WAL holds the add record of a task, then records of other
\* tasks, then a status record of the task written by a worker and one
\* written by cancel_task.
RecordsInterleaved ==
  \E i \in DOMAIN wal, k \in DOMAIN wal :
    /\ wal[i].event = "add" /\ wal[k].event = "status"
    /\ wal[k].task_id = wal[i].task_id
    /\ \E j \in (i + 1)..(k - 1) : wal[j].task_id # wal[i].task_id
    /\ \E m \in DOMAIN wal : wal[m].event = "status" /\ wal[m].status = "cancelled"
    /\ \E m \in DOMAIN wal : wal[m].event = "status" /\ wal[m].status = "succeeded"


\* C29: every status record in the WAL carries a terminal status, never
\* running or pending.
OnlyTerminalStatusLogged ==
  \A i \in DOMAIN wal : wal[i].event = "status" => wal[i].status \in Terminal


\* The add records and the status records of task id in the log.
AddRecords(log, id) ==
  {i \in DOMAIN log : log[i].event = "add" /\ log[i].task_id = id}

StatusRecords(log, id) ==
  {i \in DOMAIN log : log[i].event = "status" /\ log[i].task_id = id}

\* C30: the WAL holds exactly one add record for every task that has one or
\* has a status record, and at most one status record for every task.
OneAddOneStatus ==
  \A id \in TaskIds :
    /\ (AddRecords(wal, id) # {} \/ StatusRecords(wal, id) # {})
         => Cardinality(AddRecords(wal, id)) = 1
    /\ Cardinality(StatusRecords(wal, id)) <= 1


\* the workers whose runner has ended an execution: the handler returned
\* ("ok") or the last attempt failed ("err"); attempts are numbered from 0
Ended(how) == {w \in WorkerIds : wk[w].pc = "run" /\ wk[w].rpc = how}

\* C31: at the end of an execution the task's retries are the
\* attempts made less one, whether the last attempt succeeded or failed.
RetriesAreAttemptsLessOne ==
  \A w \in Ended("ok") \cup Ended("err") : tasks[wk[w].tid].retries = wk[w].attempt


\* the circuit of service s is open; it is open and its cooldown has not elapsed
Open(s) == circuit[s].opened_at # None
Cooling(s) == Open(s) /\ now - circuit[s].opened_at <= config.circuit_breaker_timeout

\* worker w resumes from `await runner` with the handler's value and records
\* a success for service s
SuccessRecorded(w, s) ==
  /\ wk[w].pc = "run" /\ wk[w].rpc = "ok" /\ ~wk[w].exc
  /\ wk'[w].pc = "wal"
  /\ tasks[wk[w].tid].service = s

\* C32: a circuit is open exactly while its failure count is at or above the
\* threshold; it opens in the step that takes the count to the threshold, at
\* the clock reading of that step; while it is open and the cooldown has not
\* elapsed allow() is false; it closes only by a recorded success or after
\* the cooldown, with the count back at 0; a recorded success leaves it
\* closed with count 0.
CircuitOpensAtThreshold ==
  [][\A s \in Services :
       /\ Open(s)' <=> circuit'[s].failures >= config'.circuit_breaker_threshold
       /\ (~Open(s) /\ Open(s)') =>
             /\ circuit'[s].failures = circuit[s].failures + 1
             /\ circuit'[s].failures = config.circuit_breaker_threshold
             /\ circuit'[s].opened_at = now
       /\ Cooling(s)' =>
             ~CircuitAllow(circuit'[s], config'.circuit_breaker_timeout, now').allowed
       /\ (Open(s) /\ ~Open(s)') =>
             /\ circuit'[s] = NewCircuit
             /\ (\E w \in WorkerIds : SuccessRecorded(w, s)) \/ ~Cooling(s)
       /\ (\E w \in WorkerIds : SuccessRecorded(w, s)) => circuit'[s] = NewCircuit]_vars

\* C32 witness: with threshold 1 a task has succeeded after a failed attempt,
\* which opened the circuit and closed it again, and a later failure has
\* opened the circuit once more; its cooldown is running.
OpenedAgainAtFirstFailure ==
  /\ config.circuit_breaker_threshold = 1
  /\ \E id \in TaskIds : tasks[id].status = "succeeded" /\ tasks[id].retries >= 1
  /\ Cooling("svc") /\ circuit["svc"].opened_at > 1 /\ circuit["svc"].failures = 1


\* C33: a task that a worker holds in the circuit-open sleep stays pending,
\* no attempt of it begins, and in the next state the worker either still
\* sleeps with it or the queue has an entry of the task with its priority.
OpenCircuitRequeues ==
  [][\A w \in WorkerIds :
       wk[w].pc = "sleep" =>
         LET id == wk[w].tid
         IN /\ tasks'[id].status = "pending"
            /\ \A v \in WorkerIds : ~AttemptBegins(v, id)
            /\ \/ wk'[w].pc = "sleep" /\ wk'[w].tid = id
               \/ \E i \in DOMAIN queue' :
                     queue'[i] = QueuedTask(tasks[id].priority, id)]_vars


\* the deadline of task t has been reached: the timeout computed for its
\* next attempt, min(task_timeout, max(0, deadline - now)), is 0
DeadlineReached(t) == t.deadline # None /\ t.deadline - now <= 0

\* C34: when the backoff sleep before a retry ends with the task's deadline
\* reached, the execution ends in error at once: no failure is recorded in
\* the circuit, the task's retries stay, no attempt and no backoff follow.
RetryPastDeadlineAborts ==
  [][\A w \in WorkerIds :
       (RetryAfterBackoff(w) /\ DeadlineReached(tasks[wk[w].tid])) =>
          /\ circuit' = circuit
          /\ tasks'[wk[w].tid].retries = tasks[wk[w].tid].retries
          /\ wk'[w].rpc = "err"]_vars


\* the worker coroutines that have not ended
Live == {w \in WorkerIds : wk[w].pc \notin {"none", "dead"}}

\* the live workers that go on looping: no CancelledError has been or is about
\* to be raised in them
Looping == {w \in Live : ~wk[w].exc /\ wk[w].rpc # "cancelled"}

\* C35: while the orchestrator is started at least 1 worker is live and at
\* most max_concurrency workers go on looping, and an autoscaler iteration
\* that changes the pool leaves min(max_concurrency, max(1, queue depth))
\* workers that go on looping.
LiveWorkersWithinBounds ==
  [][/\ scaler' = "run" =>
          /\ Cardinality(Live)' >= 1
          /\ Cardinality(Looping)' <= config'.max_concurrency
     /\ (AutoscaleUp \/ AutoscaleDown) => Cardinality(Looping)' = Desired]_vars


\* C36: an autoscaler iteration that cancels workers leaves the runner of a
\* cancelled worker as it was, and a worker that lets go of a task it was
\* executing (it ends, or goes back to the queue) leaves the task terminal.
ScaleDownFinishesTask ==
  [][/\ AutoscaleDown =>
          \A w \in Range(workers) \ Range(workers') :
             wk[w].pc = "run" => wk'[w].rpc = wk[w].rpc /\ wk'[w].tid = wk[w].tid
     /\ \A w \in WorkerIds :
          (wk[w].pc \in {"run", "wal"} /\ wk'[w].pc \in {"none", "dead", "get"})
             => tasks'[wk[w].tid].status \in Terminal]_vars


\* C37: when stop() returns after an update_config call that returned a
\* non-empty change map, the WAL holds the config_override record.
OverrideLoggedByStop ==
  [][StopReturns =>
       (DOMAIN upd.changes # {} => \E i \in DOMAIN wal' : wal'[i] = ConfigRecord)]_vars


\* C38: a start() that fails in recovery, after it has taken the leader
\* lock, leaves the lock free.
FailedStartFreesLock ==
  [][StartFails => leader' = 0]_vars


FailedAddLeavesNothing ==
  [][(WalWriteFails /\ Head(walq).rec.event = "add") =>
       LET id == Head(walq).rec.task_id
       IN /\ tasks'[id].status = "absent"
          /\ Entries(id, queue') = 0
          /\ \A w \in WorkerIds : wk'[w].tid # id]_vars

====
